---- MODULE Spec2Model ----
(***************************************************************************)
(* The optimization orchestrator of pysmt/optimization/optimsat.py         *)
(* (class OptiMSATSolver): optimize, pareto_optimize,                       *)
(* lexicographic_optimize and boxed_optimization driving one incremental    *)
(* OptiMathSAT session.                                                     *)
(*                                                                         *)
(* The backend (msat_* library calls, solve, get_model) is an external      *)
(* collaborator: every answer it gives is an input of the action, drawn     *)
(* from a small set.  One action is one whole call of a method, or, for     *)
(* the generator boxed_optimization is, one run of its body from a next()   *)
(* to the yield or the end it stops at.  The calls a method makes on the    *)
(* backend are written, in order, to call.trace.                            *)
(***************************************************************************)
EXTENDS Integers, Sequences, FiniteSets

VARIABLES
    priority,   \* session: the mode last given to msat_set_opt_priority
    asserted,   \* session: the objective handles asserted so far, in order
    gen,        \* the generator object boxed_optimization last returned
    call        \* the record of the method call that has just ended; NoCall
                \* once the caller has taken its result

vars == <<priority, asserted, gen, call>>

-----------------------------------------------------------------------------
(* Bounds *)

\* longest goal list handed to a multi-goal method
MaxGoals == 2

\* number of objectives one session is driven to hold
MaxAsserted == 2

\* number of solves one generator of boxed_optimization is driven to make
MaxSolves == 3

-----------------------------------------------------------------------------
(* Data *)

Terms == {"x", "y"}

\* the term a vector goal's term() stands for (the Goal classes are not part
\* of optimsat.py; a model values it like any other term)
AggTerm == "agg"

TermKeys == Terms \cup {AggTerm}

Values == {0, 1}

\* the variable assignments the backend may produce as a model
Valuations ==
    { [t \in TermKeys |-> IF t = "x" THEN 0 ELSE 1],
      [t \in TermKeys |-> IF t = "x" THEN 1 ELSE 0] }

ScalarTags == {"Minimize", "Maximize"}

VectorTags == {"MinMax", "MaxMin"}

Goal(tag, terms) == [tag |-> tag, terms |-> terms]

\* the goals the caller hands in: both scalar tags, a vector goal with two
\* terms, a vector goal without terms, an unknown tag
GoalPool ==
    { Goal("Minimize", <<"x">>), Goal("Maximize", <<"y">>),
      Goal("MinMax", <<"x", "y">>), Goal("MaxMin", <<>>),
      Goal("Other", <<"x">>) }

RECURSIVE SeqsUpTo(_, _)
SeqsUpTo(S, n) ==
    IF n = 0 THEN {<<>>}
    ELSE LET shorter == SeqsUpTo(S, n - 1)
         IN  shorter \cup {Append(s, e) : s \in {q \in shorter : Len(q) = n - 1}, e \in S}

GoalLists == SeqsUpTo(GoalPool, MaxGoals)

\* objective status codes of the backend
MSAT_OPT_UNKNOWN == -1

MSAT_OPT_UNSAT == 0

MSAT_OPT_OPTIMAL == 1

OptResults == {MSAT_OPT_UNKNOWN, MSAT_OPT_UNSAT, MSAT_OPT_OPTIMAL}

\* what msat_objective_value_is_unbounded may answer: an error code, no, yes
UnboundedAnswers == {-1, 0, 1}

\* what msat_objective_value_is_strict may answer: no, yes
StrictAnswers == {0, 1}

\* what msat_load_objective_model may answer: an error code, success
LoadAnswers == {-1, 0}

\* the state of the objective in the backend after a solve: what each query
\* answers when it is made (an objective with no optimum has nothing to
\* say about one)
Objectives ==
    { o \in [optres : OptResults, unbounded : UnboundedAnswers,
             is_strict : StrictAnswers, check : LoadAnswers] :
        o.optres # MSAT_OPT_OPTIMAL =>
            (o.unbounded = 0 /\ o.is_strict = 0 /\ o.check = 0) }

-----------------------------------------------------------------------------
(* Python values *)

PyNone == [shape |-> "None", items |-> <<>>]

PyInt(n) == [shape |-> "int", items |-> <<n>>]

PyList(s) == [shape |-> "list", items |-> s]

Model(id, val) == [id |-> id, val |-> val]

\* goal.is_minmax_goal() / is_maxmin_goal() / is_minimization_goal() / ...
is_minmax_goal(g) == g.tag = "MinMax"

is_maxmin_goal(g) == g.tag = "MaxMin"

is_minimization_goal(g) == g.tag = "Minimize"

is_maximization_goal(g) == g.tag = "Maximize"

\* goal.term(): the cost term of the goal
term(g) == IF g.tag \in VectorTags THEN AggTerm ELSE g.terms[1]

\* self.converter.convert(f): the native expression of a term
convert(f) == [msat_term |-> f]

\* model.get_value(t)
get_value(model, t) == model.val[t]

-----------------------------------------------------------------------------
(* Results and call records *)

Raise(exc, msg, backend, goal) ==
    [kind |-> "raise", exc |-> exc, msg |-> msg, backend |-> backend,
     goal |-> goal, isNone |-> FALSE, model |-> <<>>, value |-> PyNone]

\* return None
ReturnNone ==
    [kind |-> "return", exc |-> "", msg |-> "", backend |-> "",
     goal |-> <<>>, isNone |-> TRUE, model |-> <<>>, value |-> PyNone]

\* return model, value   (model is <<>> for None, <<m>> for a model)
ReturnPair(model, value) ==
    [kind |-> "return", exc |-> "", msg |-> "", backend |-> "",
     goal |-> <<>>, isNone |-> FALSE, model |-> model, value |-> value]

\* a generator's next() handing out the model of a yield
Yield(model) ==
    [kind |-> "yield", exc |-> "", msg |-> "", backend |-> "",
     goal |-> <<>>, isNone |-> FALSE, model |-> <<model>>, value |-> PyNone]

\* return of the generator object itself
ReturnGenerator ==
    [kind |-> "return", exc |-> "", msg |-> "", backend |-> "",
     goal |-> <<>>, isNone |-> FALSE, model |-> <<>>,
     value |-> [shape |-> "generator", items |-> <<>>]]

\* the answers the backend gave during a call; <<>> where it was not asked
NoAnswers ==
    [rt |-> <<>>, optres |-> <<>>, unbounded |-> <<>>, is_strict |-> <<>>,
     check |-> <<>>]

\* the record of a method call: the method, its arguments, the backend calls
\* it made in order, the answers it read, the state of the objective in the
\* backend after its solve (<<>> when the method queries none), the handles it
\* built and asserted, the dict pareto_optimize fills, and how it ended
NoCall ==
    [op |-> "none", goals |-> <<>>, trace |-> <<>>, answers |-> NoAnswers,
     objective |-> <<>>, made |-> <<>>, asserts |-> <<>>, models |-> <<>>,
     result |-> ReturnNone]

\* a handle made by one of the backend's objective constructors
Handle(maker, obj) == [maker |-> maker, obj |-> obj]

Makers ==
    {"msat_make_minmax", "msat_make_maxmin", "msat_make_minimize",
     "msat_make_maximize"}

\* obj_fun = [] ; for f in cost_function: obj_fun.append(convert(f))
convert_all(terms) == [i \in 1..Len(terms) |-> convert(terms[i])]

Repeat(e, n) == [i \in 1..n |-> e]

-----------------------------------------------------------------------------
(* optimize *)

\* mutant: the last arm of the dispatch is the scalar arm itself (`else`
\* where the code has `elif ... else: raise`), so an unknown tag is compiled
optimize_compile_mut(goal) ==
    IF is_minmax_goal(goal) \/ is_maxmin_goal(goal) THEN
        LET make_fun == IF is_minmax_goal(goal) THEN "msat_make_minmax"
                        ELSE "msat_make_maxmin"
            obj_fun == PyList(convert_all(goal.terms))
        IN  [trace |-> Append(Repeat("convert", Len(goal.terms)), make_fun),
             msat_obj |-> <<Handle(make_fun, obj_fun)>>,
             error |-> <<>>]
    ELSE
        LET make_fun == IF is_minimization_goal(goal) THEN "msat_make_minimize"
                        ELSE "msat_make_maximize"
        IN  [trace |-> <<"convert", make_fun>>,
             msat_obj |-> <<Handle(make_fun, convert(term(goal)))>>,
             error |-> <<>>]

\* optimize, the dispatch on the goal (the compile step): the backend calls
\* made, the handle built (<<>> when none is) and the error raised (<<>> when
\* none is)
optimize_compile(goal) ==
    IF is_minmax_goal(goal) \/ is_maxmin_goal(goal) THEN
        LET make_fun == IF is_minmax_goal(goal) THEN "msat_make_minmax"
                        ELSE "msat_make_maxmin"
            cost_function == goal.terms
            obj_fun == PyList(convert_all(cost_function))
        IN  [trace |-> Append(Repeat("convert", Len(cost_function)), make_fun),
             msat_obj |-> <<Handle(make_fun, obj_fun)>>,
             error |-> <<>>]
    ELSE IF is_minimization_goal(goal) \/ is_maximization_goal(goal) THEN
        LET make_fun == IF is_minimization_goal(goal) THEN "msat_make_minimize"
                        ELSE "msat_make_maximize"
            cost_function == term(goal)
            obj_fun == convert(cost_function)
        IN  [trace |-> <<"convert", make_fun>>,
             msat_obj |-> <<Handle(make_fun, obj_fun)>>,
             error |-> <<>>]
    ELSE
        [trace |-> <<>>,
         msat_obj |-> <<>>,
         error |-> <<Raise("GoalNotSupportedError", "", "optimathsat", <<goal>>)>>]

\* mutant: the Unknown status is compared the wrong way and is never seen
status_is_unknown_mut(optres) == optres < MSAT_OPT_UNKNOWN

\* optres == MSAT_OPT_UNKNOWN
status_is_unknown(optres) == optres = MSAT_OPT_UNKNOWN

\* mutant: the Unsat branch tests the wrong status constant
status_is_unsat_mut(optres) == optres = MSAT_OPT_OPTIMAL

\* optres == MSAT_OPT_UNSAT
status_is_unsat(optres) == optres = MSAT_OPT_UNSAT

\* mutant: the sign of the unboundedness test is flipped
unbounded_reported_mut(unbounded) == unbounded < 0

\* if unbounded > 0
unbounded_reported(unbounded) == unbounded > 0

\* mutant: the strictness answer is tested for an error code only
strict_reported_mut(is_strict) == is_strict < 0

\* if is_strict
strict_reported(is_strict) == is_strict # 0

\* mutant: only a positive answer of the load counts as a failure
load_failed_mut(check) == check > 0

\* if check != 0
load_failed(check) == check # 0

\* optimize, after the solve: the status query and what follows from it.
\* optres, unbounded, is_strict and check are the backend's answers, val the
\* assignment of the model get_model() builds.
optimize_status(optres, unbounded, is_strict, check, val) ==
    LET t1 == <<"msat_objective_result">>
        a1 == [NoAnswers EXCEPT !.optres = <<optres>>]
    IN
    IF status_is_unknown(optres) THEN
        [trace |-> t1, answers |-> a1,
         result |-> Raise("SolverReturnedUnknownResultError", "", "", <<>>)]
    ELSE IF status_is_unsat(optres) THEN
        [trace |-> t1, answers |-> a1, result |-> ReturnNone]
    ELSE
        LET t2 == Append(t1, "msat_objective_value_is_unbounded")
            a2 == [a1 EXCEPT !.unbounded = <<unbounded>>]
        IN
        IF unbounded_reported(unbounded) THEN
            [trace |-> t2, answers |-> a2,
             result |-> Raise("PysmtUnboundedOptimizationError",
                              "The optimal value is unbounded", "", <<>>)]
        ELSE
            LET t3 == Append(t2, "msat_objective_value_is_strict")
                a3 == [a2 EXCEPT !.is_strict = <<is_strict>>]
            IN
            IF strict_reported(is_strict) THEN
                [trace |-> t3, answers |-> a3,
                 result |-> Raise("PysmtUnboundedOptimizationError",
                                  "The optimal value is infinitesimal", "", <<>>)]
            ELSE
                LET t4 == Append(t3, "msat_load_objective_model")
                    a4 == [a3 EXCEPT !.check = <<check>>]
                IN
                IF load_failed(check) THEN
                    [trace |-> t4, answers |-> a4,
                     result |-> Raise("ValueError", "", "", <<>>)]
                ELSE
                    LET model == Model(1, val)
                    IN  [trace |-> Append(t4, "get_model"), answers |-> a4,
                         result |-> ReturnPair(<<model>>, PyInt(optres))]

\* mutant: optimize tests the answer of its solve and returns None when the
\* solve failed
optimize_checked(goal, rt, obj, val) ==
    LET c == optimize_compile(goal)
    IN
    IF c.error # <<>> THEN
        [NoCall EXCEPT !.op = "optimize", !.goals = <<goal>>,
                       !.trace = c.trace, !.result = c.error[1]]
    ELSE IF ~rt THEN
        [op |-> "optimize", goals |-> <<goal>>,
         trace |-> c.trace \o <<"msat_assert_objective", "solve">>,
         answers |-> [NoAnswers EXCEPT !.rt = <<rt>>],
         objective |-> <<obj>>,
         made |-> c.msat_obj, asserts |-> c.msat_obj,
         models |-> <<>>, result |-> ReturnNone]
    ELSE
        LET s == optimize_status(obj.optres, obj.unbounded, obj.is_strict,
                                 obj.check, val)
        IN  [op |-> "optimize", goals |-> <<goal>>,
             trace |-> c.trace \o <<"msat_assert_objective", "solve">> \o s.trace,
             answers |-> [s.answers EXCEPT !.rt = <<rt>>],
             objective |-> <<obj>>,
             made |-> c.msat_obj, asserts |-> c.msat_obj,
             models |-> <<>>, result |-> s.result]

\* optimize(goal): the record of the whole call
optimize(goal, rt, obj, val) ==
    LET c == optimize_compile(goal)
    IN
    IF c.error # <<>> THEN
        [NoCall EXCEPT !.op = "optimize", !.goals = <<goal>>,
                       !.trace = c.trace, !.result = c.error[1]]
    ELSE
        LET s == optimize_status(obj.optres, obj.unbounded, obj.is_strict,
                                 obj.check, val)
        IN  [op |-> "optimize", goals |-> <<goal>>,
             trace |-> c.trace \o <<"msat_assert_objective", "solve">> \o s.trace,
             answers |-> [s.answers EXCEPT !.rt = <<rt>>],
             objective |-> <<obj>>,
             made |-> c.msat_obj, asserts |-> c.msat_obj,
             models |-> <<>>, result |-> s.result]

-----------------------------------------------------------------------------
(* The compile loop shared, line for line, by pareto_optimize,              *)
(* lexicographic_optimize and boxed_optimization                            *)

\* msat_obj = f(self.msat_env(), obj_fun); msat_objs.append(msat_obj);
\* msat_assert_objective(msat_env, msat_obj).  f names what the variable f is
\* bound to: a constructor of the backend, or a term.  A term is no objective
\* constructor: calling it makes no backend call and ends the method with the
\* error of the term class, named TermCallError here.
call_f(f, obj_fun, g, trace) ==
    IF f \in Makers THEN
        [trace |-> trace \o <<f, "msat_assert_objective">>,
         msat_obj |-> <<Handle(f, obj_fun)>>,
         error |-> <<>>]
    ELSE
        [trace |-> trace,
         msat_obj |-> <<>>,
         error |-> <<Raise("TermCallError", "", "", <<g>>)>>]

\* what f is bound to when the loop `for f in cost_function` is over: the
\* loop variable shares its name with the constructor chosen before it
f_after_loop(make_fun, cost_function) ==
    IF Len(cost_function) > 0 THEN cost_function[Len(cost_function)]
    ELSE make_fun

\* one iteration of `for g in goals`
compile_goal(g) ==
    IF is_minmax_goal(g) \/ is_maxmin_goal(g) THEN
        LET make_fun == IF is_minmax_goal(g) THEN "msat_make_minmax"
                        ELSE "msat_make_maxmin"
            cost_function == g.terms
            obj_fun == PyList(convert_all(cost_function))
            f == f_after_loop(make_fun, cost_function)
        IN  call_f(f, obj_fun, g, Repeat("convert", Len(cost_function)))
    ELSE IF is_minimization_goal(g) \/ is_maximization_goal(g) THEN
        LET f == IF is_minimization_goal(g) THEN "msat_make_minimize"
                 ELSE "msat_make_maximize"
            cost_function == term(g)
            obj_fun == convert(cost_function)
        IN  call_f(f, obj_fun, g, <<"convert">>)
    ELSE
        [trace |-> <<>>,
         msat_obj |-> <<>>,
         error |-> <<Raise("GoalNotSupportedError", "", "optimathsat", <<g>>)>>]

\* the loop `for g in goals` from position i on; it ends at the first error
RECURSIVE compile_goals(_, _)
compile_goals(goals, i) ==
    IF i > Len(goals) THEN [trace |-> <<>>, made |-> <<>>, error |-> <<>>]
    ELSE
        LET c == compile_goal(goals[i])
        IN  IF c.error # <<>> THEN
                [trace |-> c.trace, made |-> <<>>, error |-> c.error]
            ELSE
                LET rest == compile_goals(goals, i + 1)
                IN  [trace |-> c.trace \o rest.trace,
                     made |-> c.msat_obj \o rest.made,
                     error |-> rest.error]

-----------------------------------------------------------------------------
(* lexicographic_optimize *)

\* mutant: the values are collected in reverse order of the goals
lex_values_mut(model, goals) ==
    [i \in 1..Len(goals) |-> get_value(model, term(goals[Len(goals) + 1 - i]))]

\* [model.get_value(x.term()) for x in goals]
lex_values(model, goals) ==
    [i \in 1..Len(goals) |-> get_value(model, term(goals[i]))]

\* the solve and the return: rt is the answer of solve(), val the assignment
\* of the model get_model() builds
lex_solve(goals, rt, val) ==
    IF rt THEN
        LET model == Model(1, val)
        IN  [trace |-> <<"solve", "get_model">>,
             result |-> ReturnPair(<<model>>, PyList(lex_values(model, goals)))]
    ELSE
        [trace |-> <<"solve">>, result |-> ReturnPair(<<>>, PyNone)]

lexicographic_optimize(goals, rt, val) ==
    LET c == compile_goals(goals, 1)
        t0 == <<"msat_set_opt_priority">> \o c.trace
    IN
    IF c.error # <<>> THEN
        [NoCall EXCEPT !.op = "lexicographic_optimize", !.goals = goals,
                       !.trace = t0, !.made = c.made, !.asserts = c.made,
                       !.result = c.error[1]]
    ELSE
        LET s == lex_solve(goals, rt, val)
        IN  [op |-> "lexicographic_optimize", goals |-> goals,
             trace |-> t0 \o s.trace,
             answers |-> [NoAnswers EXCEPT !.rt = <<rt>>],
             objective |-> <<>>,
             made |-> c.made, asserts |-> c.made,
             models |-> <<>>, result |-> s.result]

-----------------------------------------------------------------------------
(* pareto_optimize *)

\* models[goal] = (model, value) on a dict kept in insertion order
DictSet(d, goal, model, value) ==
    LET e == [key |-> goal, model |-> model, value |-> value]
    IN  IF \E i \in 1..Len(d) : d[i].key = goal
        THEN [i \in 1..Len(d) |-> IF d[i].key = goal THEN e ELSE d[i]]
        ELSE Append(d, e)

\* mutant: a failed check skips its goal (`continue`) and the loop goes on
RECURSIVE pareto_loop_mut(_, _, _, _, _)
pareto_loop_mut(goals, i, rts, vals, models) ==
    IF i > Len(goals) THEN
        [trace |-> <<>>, rt |-> <<>>, models |-> models, result |-> ReturnNone]
    ELSE
        LET model == Model(i, vals[i])
            value == get_value(model, term(goals[i]))
            rest == pareto_loop_mut(goals, i + 1, rts, vals,
                        IF rts[i] THEN DictSet(models, goals[i], model, value)
                        ELSE models)
        IN  [trace |-> (IF rts[i] THEN <<"solve", "get_model">> ELSE <<"solve">>)
                       \o rest.trace,
             rt |-> <<rts[i]>> \o rest.rt,
             models |-> rest.models, result |-> rest.result]

\* the loop `for goal in goals` of solves, from position i on, and the
\* return.  rts[i] is the answer of the i-th solve(), vals[i] the assignment
\* of the model built after it.
RECURSIVE pareto_loop(_, _, _, _, _)
pareto_loop(goals, i, rts, vals, models) ==
    IF i > Len(goals) THEN
        \* the method ends without a return statement
        [trace |-> <<>>, rt |-> <<>>, models |-> models, result |-> ReturnNone]
    ELSE IF rts[i] THEN
        LET model == Model(i, vals[i])
            value == get_value(model, term(goals[i]))
            rest == pareto_loop(goals, i + 1, rts, vals,
                                DictSet(models, goals[i], model, value))
        IN  [trace |-> <<"solve", "get_model">> \o rest.trace,
             rt |-> <<TRUE>> \o rest.rt,
             models |-> rest.models, result |-> rest.result]
    ELSE
        [trace |-> <<"solve">>, rt |-> <<FALSE>>, models |-> models,
         result |-> ReturnNone]

pareto_optimize(goals, rts, vals) ==
    LET c == compile_goals(goals, 1)
        t0 == <<"msat_set_opt_priority">> \o c.trace
    IN
    IF c.error # <<>> THEN
        [NoCall EXCEPT !.op = "pareto_optimize", !.goals = goals,
                       !.trace = t0, !.made = c.made, !.asserts = c.made,
                       !.result = c.error[1]]
    ELSE
        LET s == pareto_loop(goals, 1, rts, vals, <<>>)
        IN  [op |-> "pareto_optimize", goals |-> goals,
             trace |-> t0 \o s.trace,
             answers |-> [NoAnswers EXCEPT !.rt = s.rt],
             objective |-> <<>>,
             made |-> c.made, asserts |-> c.made,
             models |-> s.models, result |-> s.result]

-----------------------------------------------------------------------------
(* boxed_optimization: a generator function *)

\* a generator object: its state (none: there is no generator; created: the
\* body has not started; suspended: the body waits at its yield; done: the
\* body has ended), the goals it was called with (kept until the body
\* starts), and the solves and yields it has made
NoGen == [state |-> "none", goals |-> <<>>, solves |-> 0, yielded |-> 0]

\* mutant: the priority is set by the call itself, and only the loops are
\* left to the generator
boxed_optimization_eager(goals) ==
    [gen |-> [state |-> "created", goals |-> goals, solves |-> 0, yielded |-> 0],
     call |-> [NoCall EXCEPT !.op = "boxed_optimization", !.goals = goals,
                             !.trace = <<"msat_set_opt_priority">>,
                             !.result = ReturnGenerator]]

\* boxed_optimization(goals): the body holds a yield, so the call runs none
\* of it and returns the generator object
boxed_optimization(goals) ==
    [gen |-> [state |-> "created", goals |-> goals, solves |-> 0, yielded |-> 0],
     call |-> [NoCall EXCEPT !.op = "boxed_optimization", !.goals = goals,
                             !.result = ReturnGenerator]]

\* mutant: after a successful check the body runs the next check at once,
\* before it hands the model out
boxed_solve_ahead(g, rt, val) ==
    LET model == Model(g.solves + 1, val)
    IN  [gen |-> [state |-> IF rt THEN "suspended" ELSE "done",
                  goals |-> <<>>,
                  solves |-> IF rt THEN g.solves + 2 ELSE g.solves + 1,
                  yielded |-> IF rt THEN g.yielded + 1 ELSE g.yielded],
         trace |-> IF rt THEN <<"solve", "get_model", "solve", "get_model">>
                   ELSE <<"solve", "get_model">>,
         result |-> IF rt THEN Yield(model)
                    ELSE Raise("StopIteration", "", "", <<>>)]

\* mutant: the loop of boxed_optimization with a condition that is always true
boxed_solve_mut(g, rt, val) ==
    LET model == Model(g.solves + 1, val)
    IN  [gen |-> [state |-> "suspended",
                  goals |-> <<>>,
                  solves |-> g.solves + 1,
                  yielded |-> g.yielded + 1],
         trace |-> <<"solve", "get_model">>,
         result |-> Yield(model)]

\* rt = self.solve(); model = self.get_model(); then the test of `while(rt)`:
\* yield model, or leave the loop and return (next() raises StopIteration)
boxed_solve(g, rt, val) ==
    LET model == Model(g.solves + 1, val)
    IN  [gen |-> [state |-> IF rt THEN "suspended" ELSE "done",
                  goals |-> <<>>,
                  solves |-> g.solves + 1,
                  yielded |-> IF rt THEN g.yielded + 1 ELSE g.yielded],
         trace |-> <<"solve", "get_model">>,
         result |-> IF rt THEN Yield(model)
                    ELSE Raise("StopIteration", "", "", <<>>)]

\* next() on the generator g: the body runs from where it stands to its next
\* yield or to its end
boxed_next(g, rt, val) ==
    IF g.state = "created" THEN
        LET c == compile_goals(g.goals, 1)
            t0 == <<"msat_set_opt_priority">> \o c.trace
        IN
        IF c.error # <<>> THEN
            [gen |-> [g EXCEPT !.state = "done", !.goals = <<>>],
             call |-> [NoCall EXCEPT !.op = "next", !.goals = g.goals,
                                     !.trace = t0, !.made = c.made,
                                     !.asserts = c.made, !.result = c.error[1]]]
        ELSE
            LET s == boxed_solve(g, rt, val)
            IN  [gen |-> s.gen,
                 call |-> [op |-> "next", goals |-> g.goals,
                           trace |-> t0 \o s.trace,
                           answers |-> [NoAnswers EXCEPT !.rt = <<rt>>],
                           objective |-> <<>>,
                           made |-> c.made, asserts |-> c.made,
                           models |-> <<>>, result |-> s.result]]
    ELSE IF g.state = "suspended" THEN
        LET s == boxed_solve(g, rt, val)
        IN  [gen |-> s.gen,
             call |-> [NoCall EXCEPT !.op = "next", !.trace = s.trace,
                                     !.answers.rt = <<rt>>,
                                     !.result = s.result]]
    ELSE
        \* the body has ended: next() raises StopIteration and runs nothing
        [gen |-> g,
         call |-> [NoCall EXCEPT !.op = "next",
                                 !.result = Raise("StopIteration", "", "", <<>>)]]

-----------------------------------------------------------------------------
(* The session *)

Init ==
    /\ priority = "unset"
    /\ asserted = <<>>
    /\ gen = NoGen
    /\ call = NoCall

Idle == call.op = "none"

\* the answers the solves of pareto_optimize read: solves succeed k times,
\* and the next one, if the loop gets to it, fails
ParetoAnswers(n) ==
    {[i \in 1..n |-> i <= k] : k \in 0..n}

\* mutant: optimize retracts its objective before it returns or raises
Optimize_scoped ==
    /\ Idle
    /\ Len(asserted) + 1 <= MaxAsserted
    /\ \E goal \in GoalPool, rt \in BOOLEAN, obj \in Objectives,
          val \in Valuations :
          call' = optimize(goal, rt, obj, val)
    /\ UNCHANGED <<priority, asserted, gen>>

Optimize ==
    /\ Idle
    /\ Len(asserted) + 1 <= MaxAsserted
    /\ \E goal \in GoalPool, rt \in BOOLEAN, obj \in Objectives,
          val \in Valuations :
          LET c == optimize(goal, rt, obj, val)
          IN  /\ call' = c
              /\ asserted' = asserted \o c.asserts
    /\ UNCHANGED <<priority, gen>>

ParetoOptimize ==
    /\ Idle
    /\ \E goals \in GoalLists :
          /\ Len(asserted) + Len(goals) <= MaxAsserted
          /\ \E rts \in ParetoAnswers(Len(goals)),
                vals \in [1..Len(goals) -> Valuations] :
                LET c == pareto_optimize(goals, rts, vals)
                IN  /\ call' = c
                    /\ asserted' = asserted \o c.asserts
    /\ priority' = "par"
    /\ UNCHANGED gen

LexicographicOptimize ==
    /\ Idle
    /\ \E goals \in GoalLists :
          /\ Len(asserted) + Len(goals) <= MaxAsserted
          /\ \E rt \in BOOLEAN, val \in Valuations :
                LET c == lexicographic_optimize(goals, rt, val)
                IN  /\ call' = c
                    /\ asserted' = asserted \o c.asserts
    /\ priority' = "lex"
    /\ UNCHANGED gen

BoxedOptimization ==
    /\ Idle
    /\ \E goals \in GoalLists :
          /\ Len(asserted) + Len(goals) <= MaxAsserted
          /\ LET b == boxed_optimization(goals)
             IN  /\ gen' = b.gen
                 /\ call' = b.call
    /\ UNCHANGED <<priority, asserted>>

\* next(gen) on a generator whose body has not ended
BoxedNext ==
    /\ Idle
    /\ gen.state \in {"created", "suspended"}
    /\ Len(asserted) + Len(gen.goals) <= MaxAsserted
    /\ gen.solves < MaxSolves
    /\ \E rt \in BOOLEAN, val \in Valuations :
          LET b == boxed_next(gen, rt, val)
          IN  /\ gen' = b.gen
              /\ call' = b.call
              /\ asserted' = asserted \o b.call.asserts
    /\ priority' = IF gen.state = "created" THEN "box" ELSE priority

\* next(gen) on a generator whose body has ended
BoxedNextDone ==
    /\ Idle
    /\ gen.state = "done"
    /\ LET b == boxed_next(gen, FALSE, CHOOSE v \in Valuations : TRUE)
       IN  /\ gen' = b.gen
           /\ call' = b.call
    /\ UNCHANGED <<priority, asserted>>

\* the caller takes the result of the call; the session waits for the next
Return ==
    /\ ~Idle
    /\ call' = NoCall
    /\ UNCHANGED <<priority, asserted, gen>>

Next ==
    \/ Optimize
    \/ ParetoOptimize
    \/ LexicographicOptimize
    \/ BoxedOptimization
    \/ BoxedNext
    \/ BoxedNextDone
    \/ Return

Spec == Init /\ [][Next]_vars

-----------------------------------------------------------------------------
(* Properties *)

\* how often the call made the backend call e
Count(e) == Cardinality({i \in 1..Len(call.trace) : call.trace[i] = e})

Supported(g) == g.tag \in ScalarTags \cup VectorTags

\* the call was optimize on a supported goal: it got to its solve
OptimizeSolved == call.op = "optimize" /\ call.objective # <<>>

\* the call returned a model together with a value
ReturnedModel ==
    /\ call.result.kind = "return"
    /\ ~call.result.isNone
    /\ Len(call.result.model) = 1

\* C1: when the objective status after the solve is Unsat, optimize returns
\* None, raises nothing, and makes no unboundedness query, no strictness
\* query and no load-objective-model call.
C1_UnsatReturnsNone ==
    (OptimizeSolved /\ call.objective[1].optres = MSAT_OPT_UNSAT) =>
        /\ call.result = ReturnNone
        /\ Count("msat_objective_value_is_unbounded") = 0
        /\ Count("msat_objective_value_is_strict") = 0
        /\ Count("msat_load_objective_model") = 0

C1_Witness ==
    /\ OptimizeSolved
    /\ call.goals[1].tag = "MinMax"
    /\ call.objective[1].optres = MSAT_OPT_UNSAT
    /\ call.answers.rt = <<TRUE>>
    /\ call.result.isNone

\* C2: when the objective status after the solve is Unknown, optimize raises
\* SolverReturnedUnknownResultError: it returns neither None nor a model, and
\* it has solved exactly once.
C2_UnknownRaises ==
    (OptimizeSolved /\ call.objective[1].optres = MSAT_OPT_UNKNOWN) =>
        /\ call.result.kind = "raise"
        /\ call.result.exc = "SolverReturnedUnknownResultError"
        /\ ~call.result.isNone
        /\ call.result.model = <<>>
        /\ Count("solve") = 1
        /\ Count("get_model") = 0

C2_Witness ==
    /\ OptimizeSolved
    /\ call.goals[1].tag = "Minimize"
    /\ call.objective[1].optres = MSAT_OPT_UNKNOWN
    /\ call.answers.rt = <<FALSE>>
    /\ call.result.exc = "SolverReturnedUnknownResultError"

\* C3: status Optimal and the optimum reported unbounded: optimize raises
\* PysmtUnboundedOptimizationError with the 'unbounded' message, whatever the
\* backend would answer about strictness; no model is loaded or returned.
C3_UnboundedRaises ==
    (/\ OptimizeSolved
     /\ call.objective[1].optres = MSAT_OPT_OPTIMAL
     /\ call.objective[1].unbounded > 0) =>
        /\ call.result.kind = "raise"
        /\ call.result.exc = "PysmtUnboundedOptimizationError"
        /\ call.result.msg = "The optimal value is unbounded"
        /\ call.result.msg # "The optimal value is infinitesimal"
        /\ Count("msat_load_objective_model") = 0
        /\ Count("get_model") = 0
        /\ call.result.model = <<>>

C3_Witness ==
    /\ OptimizeSolved
    /\ call.objective[1].optres = MSAT_OPT_OPTIMAL
    /\ call.objective[1].unbounded = 1
    /\ call.objective[1].is_strict = 1
    /\ call.result.msg = "The optimal value is unbounded"

\* C4: status Optimal, the optimum not reported unbounded and reported
\* strict: optimize raises PysmtUnboundedOptimizationError with the
\* 'infinitesimal' message, load-objective-model is not called and no model
\* is returned.
C4_StrictRaises ==
    (/\ OptimizeSolved
     /\ call.objective[1].optres = MSAT_OPT_OPTIMAL
     /\ ~(call.objective[1].unbounded > 0)
     /\ call.objective[1].is_strict = 1) =>
        /\ call.result.kind = "raise"
        /\ call.result.exc = "PysmtUnboundedOptimizationError"
        /\ call.result.msg = "The optimal value is infinitesimal"
        /\ call.answers.is_strict = <<1>>
        /\ Count("msat_load_objective_model") = 0
        /\ Count("get_model") = 0
        /\ call.result.model = <<>>

C4_Witness ==
    /\ OptimizeSolved
    /\ call.objective[1].optres = MSAT_OPT_OPTIMAL
    /\ call.objective[1].unbounded = 0
    /\ call.objective[1].is_strict = 1
    /\ call.objective[1].check = 0
    /\ call.result.msg = "The optimal value is infinitesimal"

\* C5: optimize on a goal whose tag is none of Minimize, Maximize, MinMax,
\* MaxMin raises GoalNotSupportedError carrying the backend name and the
\* goal; it makes no backend call (no conversion, no constructor, no assert,
\* no solve) and leaves the priority and the asserted objectives as they were.
C5_UnsupportedGoal ==
    [][(call'.op = "optimize" /\ ~Supported(call'.goals[1])) =>
          /\ call'.result.kind = "raise"
          /\ call'.result.exc = "GoalNotSupportedError"
          /\ call'.result.backend = "optimathsat"
          /\ call'.result.goal = call'.goals
          /\ call'.trace = <<>>
          /\ call'.made = <<>>
          /\ asserted' = asserted
          /\ priority' = priority]_vars

C5_Witness ==
    /\ call.op = "optimize"
    /\ call.goals[1].tag = "Other"
    /\ call.result.exc = "GoalNotSupportedError"
    /\ Len(asserted) = 1
    /\ priority = "lex"

\* C6: for a MinMax or MaxMin goal for which optimize returns a model, the
\* value returned with it is a sequence as long as the goal's term sequence,
\* its i-th element the value of the i-th term.
C6_VectorValue ==
    (call.op = "optimize" /\ call.goals[1].tag \in VectorTags /\ ReturnedModel) =>
        /\ call.result.value.shape = "list"
        /\ Len(call.result.value.items) = Len(call.goals[1].terms)
        /\ \A i \in 1..Len(call.goals[1].terms) :
              call.result.value.items[i]
                  = get_value(call.result.model[1], call.goals[1].terms[i])

\* C7: for a Minimize or Maximize goal for which optimize returns a model,
\* the value returned with it is the model's value of the goal's cost term.
C7_ScalarValue ==
    (call.op = "optimize" /\ call.goals[1].tag \in ScalarTags /\ ReturnedModel) =>
        /\ call.result.value.shape = "int"
        /\ call.result.value.items[1]
              = get_value(call.result.model[1], term(call.goals[1]))

\* the constructor of the backend that matches a vector tag
VectorMaker(g) ==
    IF g.tag = "MinMax" THEN "msat_make_minmax" ELSE "msat_make_maxmin"

\* the calls that run a compile step: optimize, pareto_optimize,
\* lexicographic_optimize, and the first next() of a boxed_optimization
Compiles ==
    call.op \in {"optimize", "pareto_optimize", "lexicographic_optimize", "next"}

\* C8: in every method, a MinMax or MaxMin goal the compile loop gets to is
\* compiled by the vector constructor matching its tag, applied to the
\* converted terms in input order, and the handle built is the one asserted.
C8_VectorCompiled ==
    \A k \in 1..Len(call.goals) :
        (/\ Compiles
         /\ call.goals[k].tag \in VectorTags
         /\ \A j \in 1..(k - 1) : Supported(call.goals[j])) =>
            /\ Len(call.asserts) >= k
            /\ call.made[k] = Handle(VectorMaker(call.goals[k]),
                                     PyList(convert_all(call.goals[k].terms)))
            /\ call.asserts[k] = call.made[k]

\* C9: once lexicographic_optimize has solved: if the solve succeeded it
\* returns one model and a list with one value per goal in input order, each
\* the value of that goal's term in that model; if it failed it returns
\* (None, None).
C9_LexResult ==
    (call.op = "lexicographic_optimize" /\ call.answers.rt # <<>>) =>
        IF call.answers.rt[1] THEN
            /\ ReturnedModel
            /\ call.result.value.shape = "list"
            /\ Len(call.result.value.items) = Len(call.goals)
            /\ \A i \in 1..Len(call.goals) :
                  call.result.value.items[i]
                      = call.result.model[1].val[term(call.goals[i])]
        ELSE
            /\ call.result.kind = "return"
            /\ ~call.result.isNone
            /\ call.result.model = <<>>
            /\ call.result.value = PyNone

C9_Witness ==
    /\ call.op = "lexicographic_optimize"
    /\ call.answers.rt = <<TRUE>>
    /\ Len(call.goals) = 2
    /\ call.goals[1].tag = "Minimize"
    /\ call.goals[2].tag = "Maximize"
    /\ ReturnedModel
    /\ call.result.value.items[1] # call.result.value.items[2]

\* C10: in pareto_optimize, when the check at loop position i (from 1) fails,
\* the call returns None whatever the earlier checks recorded, and the
\* failing solve is the last one: exactly i solves were made.
C10_ParetoAbort ==
    \A i \in 1..Len(call.answers.rt) :
        (call.op = "pareto_optimize" /\ ~call.answers.rt[i]) =>
            /\ call.result = ReturnNone
            /\ Count("solve") = i
            /\ Len(call.answers.rt) = i

C10_Witness ==
    /\ call.op = "pareto_optimize"
    /\ call.answers.rt = <<TRUE, FALSE>>
    /\ Len(call.models) = 1
    /\ call.result.isNone

\* C11: the sequence of boxed_optimization, drained, yields one model per
\* successful check and ends at the first check that fails: after n successes
\* and one failure it has yielded n models and made n + 1 solves.  A pull on
\* the ended sequence raises StopIteration, yields nothing, makes no solve and
\* no other backend call, and leaves the session as it was.
C11_BoxedDrain ==
    [][(call'.op = "next" /\ (gen.state = "done" \/ call'.answers.rt # <<>>)) =>
          IF gen.state = "done" THEN
              /\ call'.result.kind = "raise"
              /\ call'.result.exc = "StopIteration"
              /\ call'.trace = <<>>
              /\ gen' = gen
              /\ asserted' = asserted
              /\ priority' = priority
          ELSE IF call'.answers.rt[1] THEN
              /\ call'.result.kind = "yield"
              /\ Len(call'.result.model) = 1
              /\ gen'.state = "suspended"
              /\ gen'.yielded = gen.yielded + 1
              /\ gen'.solves = gen'.yielded
          ELSE
              /\ call'.result.kind = "raise"
              /\ call'.result.exc = "StopIteration"
              /\ gen'.state = "done"
              /\ gen'.yielded = gen.yielded
              /\ gen'.solves = gen'.yielded + 1]_vars

C11_Witness ==
    /\ call.op = "next"
    /\ gen.state = "done"
    /\ gen.yielded = 2
    /\ gen.solves = 3
    /\ call.trace = <<>>
    /\ call.result.exc = "StopIteration"

\* the number of times the backend call e stands in the trace t
CountOf(t, e) == Cardinality({i \in 1..Len(t) : t[i] = e})

\* the mode a multi-goal operation runs under
ModeOf(op) ==
    IF op = "pareto_optimize" THEN "par"
    ELSE IF op = "lexicographic_optimize" THEN "lex"
    ELSE "box"

\* the step runs the body of a multi-goal operation from its first line: a
\* call of pareto_optimize or lexicographic_optimize, or the first pull from
\* the sequence of boxed_optimization
MultiGoalRun ==
    \/ call'.op \in {"pareto_optimize", "lexicographic_optimize"}
    \/ call'.op = "next" /\ gen.state = "created"

\* C12: every run of a multi-goal operation sets the priority exactly once,
\* to the mode of the operation, and sets it at a moment when no objective is
\* asserted in the session, whatever calls the session has seen before.
C12_PriorityBeforeObjectives ==
    [][MultiGoalRun =>
          /\ CountOf(call'.trace, "msat_set_opt_priority") = 1
          /\ call'.trace[1] = "msat_set_opt_priority"
          /\ priority' = ModeOf(call'.op)
          /\ asserted = <<>>]_vars

\* C13: optimize on a supported goal compiles the goal, asserts the objective,
\* solves exactly once and then queries the status, in that order, on every
\* path, those that end in an error included.  The load of the objective
\* model happens only when the status is Optimal and neither the
\* unboundedness test nor the strictness test fired; a model is returned only
\* after a load that answered 0; a load that answered anything else ends the
\* call with ValueError, without get_model and without a model.
C13_OptimizeOrder ==
    (call.op = "optimize" /\ Supported(call.goals[1])) =>
        /\ OptimizeSolved
        /\ Count("msat_assert_objective") = 1
        /\ Count("solve") = 1
        /\ Count("msat_objective_result") = 1
        /\ \E i \in 1..(Len(call.trace) - 2) :
              /\ call.trace[i] = "msat_assert_objective"
              /\ call.trace[i + 1] = "solve"
              /\ call.trace[i + 2] = "msat_objective_result"
              /\ call.trace[i - 1] \in Makers
              /\ \A j \in 1..(i - 2) : call.trace[j] = "convert"
        /\ Count("msat_load_objective_model") <= 1
        /\ Count("msat_load_objective_model") = 1 =>
              /\ call.answers.optres = <<MSAT_OPT_OPTIMAL>>
              /\ Len(call.answers.unbounded) = 1
              /\ call.answers.unbounded[1] <= 0
              /\ call.answers.is_strict = <<0>>
              /\ Len(call.answers.check) = 1
        /\ ReturnedModel =>
              /\ call.answers.check = <<0>>
              /\ call.trace[Len(call.trace) - 1] = "msat_load_objective_model"
              /\ call.trace[Len(call.trace)] = "get_model"
        /\ (call.answers.check # <<>> /\ call.answers.check[1] # 0) =>
              /\ call.result.kind = "raise"
              /\ call.result.exc = "ValueError"
              /\ call.result.model = <<>>
              /\ Count("get_model") = 0

C13_Witness ==
    /\ call.op = "optimize"
    /\ call.goals[1].tag = "MinMax"
    /\ call.answers.rt = <<FALSE>>
    /\ call.answers.unbounded = <<-1>>
    /\ call.answers.check = <<-1>>
    /\ call.result.exc = "ValueError"
    /\ Count("solve") = 1

\* the handle the compile step is to build for a supported goal
ExpectedHandle(g) ==
    IF g.tag \in VectorTags
    THEN Handle(VectorMaker(g), PyList(convert_all(g.terms)))
    ELSE Handle(IF g.tag = "Minimize" THEN "msat_make_minimize"
                ELSE "msat_make_maximize", convert(term(g)))

\* C14: lexicographic_optimize over supported goals asserts one handle per
\* goal, in input order, all of them before it solves, and then makes exactly
\* one solve, whatever the number of goals (none included) and whatever the
\* solve answers.
C14_LexAssertsThenSolves ==
    (/\ call.op = "lexicographic_optimize"
     /\ \A i \in 1..Len(call.goals) : Supported(call.goals[i])) =>
        /\ Len(call.asserts) = Len(call.goals)
        /\ \A i \in 1..Len(call.goals) :
              call.asserts[i] = ExpectedHandle(call.goals[i])
        /\ Count("msat_assert_objective") = Len(call.goals)
        /\ Count("solve") = 1
        /\ Len(call.answers.rt) = 1
        /\ \A i, j \in 1..Len(call.trace) :
              (call.trace[i] = "msat_assert_objective" /\ call.trace[j] = "solve")
                  => i < j

\* C15: pareto_optimize over n supported goals whose n checks all succeed
\* makes exactly n solves, records every success as an entry goal -> (model,
\* value), and returns that mapping, one entry per distinct goal: a result
\* that is not the None of a failed check.
C15_ParetoReturnsMapping ==
    (/\ call.op = "pareto_optimize"
     /\ call.result.kind = "return"
     /\ Len(call.answers.rt) = Len(call.goals)
     /\ \A i \in 1..Len(call.answers.rt) : call.answers.rt[i]) =>
        /\ Count("solve") = Len(call.goals)
        /\ \A i \in 1..Len(call.goals) :
              \E j \in 1..Len(call.models) : call.models[j].key = call.goals[i]
        /\ Len(call.models)
              = Cardinality({call.goals[i] : i \in 1..Len(call.goals)})
        /\ ~call.result.isNone
        /\ call.result.value.items = call.models

\* C16: every pull from the sequence of boxed_optimization that gets to
\* solving makes exactly one solve, so a sequence that has handed out k
\* models and has not ended has made exactly k solves; the solve for the next
\* model is made by the next pull and by no step in between.
C16_OneSolvePerPull ==
    [][/\ gen'.state = "suspended" => gen'.solves = gen'.yielded
       /\ (call'.op = "next" /\ call'.answers.rt # <<>>) =>
             /\ CountOf(call'.trace, "solve") = 1
             /\ gen'.solves = gen.solves + 1
       /\ (call'.op # "next" /\ gen'.state # "created") =>
             /\ gen'.solves = gen.solves
             /\ gen'.yielded = gen.yielded]_vars

C16_Witness ==
    /\ call.op = "next"
    /\ call.result.kind = "yield"
    /\ Count("solve") = 1
    /\ gen.state = "suspended"
    /\ gen.yielded = 2
    /\ gen.solves = 2

\* C17: the call of boxed_optimization makes no backend call: it sets no
\* priority and asserts nothing, and hands back a sequence whose body has not
\* started.  A call of optimize, pareto_optimize or lexicographic_optimize
\* made before the first pull runs on a session without the objectives of the
\* boxed call and leaves the sequence waiting; the first pull then sets the
\* priority to box, whatever mode that call left, and asserts its objectives
\* after all those already in the session.
C17_BoxedIsLazy ==
    [][/\ call'.op = "boxed_optimization" =>
             /\ call'.trace = <<>>
             /\ call'.asserts = <<>>
             /\ priority' = priority
             /\ asserted' = asserted
             /\ gen'.state = "created"
             /\ gen'.solves = 0
       /\ (/\ gen.state = "created"
           /\ call'.op \in {"optimize", "pareto_optimize",
                            "lexicographic_optimize"}) =>
             /\ gen' = gen
             /\ asserted' = asserted \o call'.asserts
       /\ (call'.op = "next" /\ gen.state = "created") =>
             /\ call'.trace[1] = "msat_set_opt_priority"
             /\ priority' = "box"
             /\ asserted' = asserted \o call'.asserts
             /\ gen'.state # "created"]_vars

C17_Witness ==
    /\ gen.state = "created"
    /\ Len(gen.goals) = 1
    /\ call.op = "pareto_optimize"
    /\ priority = "par"
    /\ Len(call.asserts) = 1
    /\ asserted = call.asserts

\* C18: no step takes an objective out of the session or puts the priority
\* back to unset: the asserted objectives after a step are those before it,
\* in the same order, followed by the ones the call of the step asserted,
\* also when that call ends in an error; and optimize makes no set-priority
\* call and leaves the priority as the latest multi-goal run set it.
C18_SessionOnlyGrows ==
    [][/\ Len(asserted') >= Len(asserted)
       /\ SubSeq(asserted', 1, Len(asserted)) = asserted
       /\ call'.op # "none" => asserted' = asserted \o call'.asserts
       /\ priority # "unset" => priority' # "unset"
       /\ call'.op = "optimize" =>
             /\ priority' = priority
             /\ CountOf(call'.trace, "msat_set_opt_priority") = 0]_vars

C18_Witness ==
    /\ call.op = "optimize"
    /\ call.result.kind = "raise"
    /\ call.result.exc = "SolverReturnedUnknownResultError"
    /\ priority = "par"
    /\ Len(asserted) = 2
    /\ Len(call.asserts) = 1
    /\ asserted[2] = call.asserts[1]

\* the latest call ran the body of a multi-goal operation over a list with at
\* least one goal: pareto_optimize, lexicographic_optimize, or the first pull
\* from the sequence of boxed_optimization
MultiGoalCall ==
    \/ call.op \in {"pareto_optimize", "lexicographic_optimize"}
    \/ call.op = "next" /\ call.goals # <<>>

\* C19: a multi-goal run over a list whose first unsupported goal comes after
\* k supported ones raises GoalNotSupportedError for that goal and makes no
\* solve, yet leaves its mark on the session: the priority is set to the mode
\* of the operation, and the objectives of the k goals before the unsupported
\* one are asserted, in order, and stay at the end of the session's
\* objectives.
C19_UnsupportedInList ==
    \A k \in 1..Len(call.goals) :
        (/\ MultiGoalCall
         /\ ~Supported(call.goals[k])
         /\ \A j \in 1..(k - 1) : Supported(call.goals[j])) =>
            /\ call.result.kind = "raise"
            /\ call.result.exc = "GoalNotSupportedError"
            /\ call.result.goal = <<call.goals[k]>>
            /\ Count("solve") = 0
            /\ Count("msat_set_opt_priority") = 1
            /\ priority = ModeOf(call.op)
            /\ Len(call.asserts) = k - 1
            /\ \A j \in 1..(k - 1) :
                  call.asserts[j] = ExpectedHandle(call.goals[j])
            /\ Len(asserted) >= k - 1
            /\ SubSeq(asserted, Len(asserted) - (k - 1) + 1, Len(asserted))
                  = call.asserts

\* what the caller of optimize can tell about how the call ended, the
\* identity of the model left aside
Outcome(c) ==
    [kind |-> c.result.kind, exc |-> c.result.exc, msg |-> c.result.msg,
     isNone |-> c.result.isNone, models |-> Len(c.result.model),
     value |-> c.result.value]

\* C20: how an optimize call on a supported goal ends depends on the
\* objective status, the unboundedness answer, the strictness answer and the
\* answer of the load only: with the same four answers the call makes the
\* same backend calls and ends with the same result had its solve answered
\* the opposite, and ends the same way on another supported goal.
C20_SolveAnswerIgnored ==
    OptimizeSolved =>
        LET val == IF call.result.model # <<>> THEN call.result.model[1].val
                   ELSE CHOOSE v \in Valuations : TRUE
            flipped == optimize(call.goals[1], ~call.answers.rt[1],
                                call.objective[1], val)
            goal == IF call.goals[1].tag = "Minimize" THEN Goal("MaxMin", <<>>)
                    ELSE Goal("Minimize", <<"x">>)
        IN  /\ flipped.result = call.result
            /\ flipped.trace = call.trace
            /\ flipped.asserts = call.asserts
            /\ Outcome(optimize(goal, ~call.answers.rt[1],
                                call.objective[1], val)) = Outcome(call)

C20_Witness ==
    /\ call.op = "optimize"
    /\ call.answers.rt = <<FALSE>>
    /\ call.answers.optres = <<MSAT_OPT_OPTIMAL>>
    /\ ReturnedModel

====
